---- MODULE Spec2Model ----
(***************************************************************************)
(* Hint utilities of the Cairo VM (src/src/vm/hints/hint_utils.rs):        *)
(* reference resolution with ap-tracking correction, the typed accessors   *)
(* built on it, and the scope / memcpy hints.                              *)
(*                                                                         *)
(* Machine integers are scaled down: usize is UsizeBits wide and i32 is    *)
(* I32Bits wide (two's complement), usize being the wider of the two as in *)
(* the program.  Arithmetic on them overflows as Rust's does: a panic in a *)
(* build with overflow checks ("debug"), a wrap-around otherwise           *)
(* ("release").  `as` casts never panic: they truncate or sign-extend.     *)
(***************************************************************************)
EXTENDS Integers, Sequences, FiniteSets, TLC

VARIABLES
    build,        \* "debug" (overflow checks on) or "release" (wrapping)
    run_context,  \* [fp, ap]: the registers, MaybeRelocatable values
    memory,       \* function <<segment, offset>> -> value; unset cells are outside its domain
    num_segments, \* number of allocated memory segments
    exec_scopes,  \* the scope stack: sequence of scopes, the last is the current one
    copied,       \* history, parallel to exec_scopes: [len, k] of a memcpy scope
    call,         \* the last call: [op, var_name, ids_data, ap_tracking, value]
    result        \* what the last call returned: Ok / Err / Panic

vars == <<build, run_context, memory, num_segments, exec_scopes, copied, call, result>>

---------------------------------------------------------------------------
(* Bounds of the model *)

UsizeBits == 8
I32Bits == 6
MaxDepth == 2
MaxCalls == 2
MaxSegments == 2

---------------------------------------------------------------------------
(* Machine integers *)

UsizeMod == 2 ^ UsizeBits
I32Mod == 2 ^ I32Bits
MinI32 == -(2 ^ (I32Bits - 1))
MaxI32 == 2 ^ (I32Bits - 1) - 1

\* x as usize: the value modulo 2^w (sign extension of a negative i32)
AsUsize(x) == x % UsizeMod

\* x as i32: truncation to the low bits, read as two's complement
AsI32(x) == ((x - MinI32) % I32Mod) + MinI32

NoPanic(v) == [panic |-> FALSE, v |-> v]
Overflowed == [panic |-> TRUE, v |-> 0]

\* usize - usize
usize_sub(a, b) ==
    IF a - b >= 0 THEN NoPanic(a - b)
    ELSE IF build = "debug" THEN Overflowed ELSE NoPanic(AsUsize(a - b))

\* usize + usize
usize_add(a, b) ==
    IF a + b < UsizeMod THEN NoPanic(a + b)
    ELSE IF build = "debug" THEN Overflowed ELSE NoPanic(AsUsize(a + b))

\* i32 + i32
i32_add(a, b) ==
    IF a + b >= MinI32 /\ a + b <= MaxI32 THEN NoPanic(a + b)
    ELSE IF build = "debug" THEN Overflowed ELSE NoPanic(AsI32(a + b))

\* i32::abs
i32_abs(a) ==
    IF a # MinI32 THEN NoPanic(IF a < 0 THEN -a ELSE a)
    ELSE IF build = "debug" THEN Overflowed ELSE NoPanic(MinI32)

---------------------------------------------------------------------------
(* Values, options and results *)

IntVal(i) == [tag |-> "Int", segment_index |-> 0, offset |-> 0, int |-> i]
RelocatableValue(s, o) ==
    [tag |-> "RelocatableValue", segment_index |-> s, offset |-> o, int |-> 0]
None == [tag |-> "None", segment_index |-> 0, offset |-> 0, int |-> 0]

IsInt(v) == v.tag = "Int"
IsRelocatable(v) == v.tag = "RelocatableValue"

Ok(v) == [kind |-> "Ok", val |-> v, err |-> ""]
Err(e, v) == [kind |-> "Err", val |-> v, err |-> e]
Panic == [kind |-> "Panic", val |-> None, err |-> "arithmetic overflow"]

ApTracking(g, o) == [some |-> TRUE, group |-> g, offset |-> o]
NoApTracking == [some |-> FALSE, group |-> 0, offset |-> 0]

Immediate(i) == [some |-> TRUE, v |-> i]
NoImmediate == [some |-> FALSE, v |-> 0]

HintReference(reg, o1, o2, deref, inner, tracking, imm) ==
    [register |-> reg, offset1 |-> o1, offset2 |-> o2, dereference |-> deref,
     inner_dereference |-> inner, ap_tracking_data |-> tracking, immediate |-> imm]

new_simple(o1) == HintReference("FP", o1, 0, TRUE, FALSE, NoApTracking, NoImmediate)

---------------------------------------------------------------------------
(* Memory, as the hint utilities use it *)

\* F(v), with v evaluated once: a let-binding of a computed value
Let(v, F(_)) == CHOOSE y \in {F(x) : x \in {v}} : TRUE

Key(addr) == <<addr.segment_index, addr.offset>>

\* Memory::get: None for an unset cell
memory_get(mem, addr) ==
    IF Key(addr) \in DOMAIN mem THEN mem[Key(addr)] ELSE None

\* Memory::get_integer
memory_get_integer(mem, addr) ==
    IF IsInt(memory_get(mem, addr)) THEN Ok(memory_get(mem, addr))
    ELSE Err("ExpectedInteger", addr)

\* Memory::insert_value: write-once, inside an allocated segment; the result
\* and the memory it leaves
memory_insert_value(mem, segments, addr, value) ==
    IF addr.segment_index >= segments
    THEN [result |-> Err("MemoryError", addr), memory |-> mem]
    ELSE IF Key(addr) \in DOMAIN mem /\ mem[Key(addr)] # value
    THEN [result |-> Err("InconsistentMemory", addr), memory |-> mem]
    ELSE [result |-> Ok(None), memory |-> (Key(addr) :> value) @@ mem]

---------------------------------------------------------------------------
(* Reference resolution *)

\* bigint.to_usize(): None for a negative value or one that does not fit
to_usize(i) == IF i >= 0 /\ i < UsizeMod THEN Immediate(i) ELSE NoImmediate

\* the correction without its check of the groups
apply_ap_tracking_correction_unchecked(ap, ref_ap_tracking, hint_ap_tracking) ==
    LET ap_diff == usize_sub(hint_ap_tracking.offset, ref_ap_tracking.offset) IN
    IF ap_diff.panic THEN Panic
    ELSE LET off == usize_sub(ap.offset, ap_diff.v) IN
         IF off.panic THEN Panic
         ELSE Ok(RelocatableValue(ap.segment_index, off.v))

apply_ap_tracking_correction(ap, ref_ap_tracking, hint_ap_tracking) ==
    IF ref_ap_tracking.group # hint_ap_tracking.group
    THEN Err("InvalidTrackingGroup", None)
    ELSE LET ap_diff == usize_sub(hint_ap_tracking.offset, ref_ap_tracking.offset) IN
         IF ap_diff.panic THEN Panic
         ELSE LET off == usize_sub(ap.offset, ap_diff.v) IN
              IF off.panic THEN Panic
              ELSE Ok(RelocatableValue(ap.segment_index, off.v))

\* the match on hint_reference.register: the base address, or the early return
base_addr(hint_reference, rc, hint_ap_tracking) ==
    IF hint_reference.register = "FP" THEN Ok(rc.fp)
    ELSE IF ~hint_ap_tracking.some \/ ~hint_reference.ap_tracking_data.some
         THEN Err("NoneApTrackingData", None)
    ELSE IF IsRelocatable(rc.ap)
         THEN apply_ap_tracking_correction(rc.ap, hint_reference.ap_tracking_data,
                                           hint_ap_tracking)
    ELSE Err("InvalidApValue", rc.ap)

\* the branch for inner_dereference = false
direct_addr(relocatable, hint_reference) ==
    LET s1 == i32_add(AsI32(relocatable.offset), hint_reference.offset1) IN
    IF s1.panic THEN Panic
    ELSE LET s2 == i32_add(s1.v, hint_reference.offset2) IN
         IF s2.panic THEN Panic
         ELSE Ok(RelocatableValue(relocatable.segment_index, AsUsize(s2.v)))

\* the branch for inner_dereference = true
inner_addr(relocatable, hint_reference, mem) ==
    LET s1 == i32_add(AsI32(relocatable.offset), hint_reference.offset1) IN
    IF s1.panic THEN Panic
    ELSE LET addr == RelocatableValue(relocatable.segment_index, AsUsize(s1.v))
             dereferenced_addr == memory_get(mem, addr)
         IN
         IF ~IsRelocatable(dereferenced_addr) THEN Ok(None)
         ELSE IF hint_reference.immediate.some
         THEN LET imm == to_usize(hint_reference.immediate.v) IN
              IF ~imm.some THEN Err("BigintToUsizeFail", None)
              ELSE LET o == usize_add(dereferenced_addr.offset, imm.v) IN
                   IF o.panic THEN Panic
                   ELSE Ok(RelocatableValue(dereferenced_addr.segment_index, o.v))
         ELSE LET o == i32_add(AsI32(dereferenced_addr.offset), hint_reference.offset2) IN
              IF o.panic THEN Panic
              ELSE Ok(RelocatableValue(dereferenced_addr.segment_index, AsUsize(o.v)))

compute_addr_from_reference(hint_reference, rc, mem, hint_ap_tracking) ==
    LET from_base(base) ==
            IF base.kind # "Ok" THEN base
            ELSE IF ~IsRelocatable(base.val) THEN Ok(None)
            ELSE IF hint_reference.offset1 < 0
                 THEN LET a == i32_abs(hint_reference.offset1) IN
                      IF a.panic THEN Panic
                      ELSE IF base.val.offset < AsUsize(a.v) THEN Ok(None)
                      ELSE IF ~hint_reference.inner_dereference
                           THEN direct_addr(base.val, hint_reference)
                      ELSE inner_addr(base.val, hint_reference, mem)
            ELSE IF ~hint_reference.inner_dereference
                 THEN direct_addr(base.val, hint_reference)
            ELSE inner_addr(base.val, hint_reference, mem)
    IN Let(base_addr(hint_reference, rc, hint_ap_tracking), from_base)

---------------------------------------------------------------------------
(* Inputs of the resolution check *)

Builds == {"debug", "release"}

Offsets1 == {MinI32, -20, -2, 0, MaxI32}
Offsets2 == {-5, 0, 3}
Trackings == {NoApTracking, ApTracking(0, 0), ApTracking(0, 2), ApTracking(1, 0)}
Immediates == {NoImmediate, Immediate(-1), Immediate(3), Immediate(UsizeMod - 1)}
FpValues == {IntVal(7), RelocatableValue(1, 5), RelocatableValue(1, 10)}
ApValues == {IntVal(7), RelocatableValue(1, 1), RelocatableValue(1, 5)}

AddrReferences ==
    {HintReference(reg, o1, o2, deref, inner, t, imm) :
        reg \in {"FP", "AP"}, o1 \in Offsets1, o2 \in Offsets2,
        deref \in BOOLEAN, inner \in BOOLEAN, t \in Trackings, imm \in Immediates}

EmptyMemory == [k \in {} |-> None]

AddrMemories ==
    {EmptyMemory,
     (<<1, 8>> :> RelocatableValue(1, 7)) @@ (<<1, 3>> :> IntVal(4)),
     (<<1, 8>> :> IntVal(4)) @@ (<<1, 3>> :> RelocatableValue(1, 1)),
     (<<1, 8>> :> RelocatableValue(1, 1)) @@ (<<1, 5>> :> RelocatableValue(1, UsizeMod - 2))}

NoCall == [op |-> "none", var_name |-> "", ids_data |-> [x \in {} |-> None],
           ap_tracking |-> NoApTracking, value |-> None]

\* the inputs of one call of compute_addr_from_reference, not yet made
InitAddr ==
    /\ build \in Builds
    /\ run_context \in [fp : FpValues, ap : ApValues]
    /\ memory \in AddrMemories
    /\ num_segments = 2
    /\ exec_scopes = <<[n |-> None]>>
    /\ copied = <<[len |-> 0, k |-> 0]>>
    /\ \E r \in AddrReferences, t \in Trackings :
           call = [op |-> "pending", var_name |-> "ref", ids_data |-> ("ref" :> r),
                   ap_tracking |-> t, value |-> None]
    /\ result = Ok(None)

\* the call of compute_addr_from_reference on the inputs drawn
ComputeAddr ==
    /\ call.op = "pending"
    /\ call' = [call EXCEPT !.op = "compute_addr_from_reference"]
    /\ result' = compute_addr_from_reference(call.ids_data[call.var_name], run_context,
                                             memory, call.ap_tracking)
    /\ UNCHANGED <<build, run_context, memory, num_segments, exec_scopes, copied>>

NextAddr == ComputeAddr

SpecAddr == InitAddr /\ [][NextAddr]_vars

---------------------------------------------------------------------------
(* Accessors by variable name *)

get_address_from_var_name(var_name, rc, mem, ids_data, ap_tracking) ==
    LET or_failed(r) ==
            IF r.kind # "Ok" THEN r
            ELSE IF r.val = None THEN Err("FailedToGetIds", None)
            ELSE r
    IN
    IF var_name \notin DOMAIN ids_data THEN Err("FailedToGetIds", None)
    ELSE Let(compute_addr_from_reference(ids_data[var_name], rc, mem, ap_tracking),
             or_failed)

get_relocatable_from_var_name(var_name, rc, mem, ids_data, ap_tracking) ==
    LET relocatable_of(r) ==
            IF r.kind # "Ok" THEN r
            ELSE IF IsRelocatable(r.val) THEN r
            ELSE Err("ExpectedRelocatable", r.val)
    IN Let(get_address_from_var_name(var_name, rc, mem, ids_data, ap_tracking),
           relocatable_of)

\* the read without the check of the cell's kind
get_integer_from_var_name_unchecked(var_name, rc, mem, ids_data, ap_tracking) ==
    LET read(relocatable) ==
            IF relocatable.kind # "Ok" THEN relocatable
            ELSE Ok(memory_get(mem, relocatable.val))
    IN Let(get_relocatable_from_var_name(var_name, rc, mem, ids_data, ap_tracking), read)

get_integer_from_var_name(var_name, rc, mem, ids_data, ap_tracking) ==
    LET read(relocatable) ==
            IF relocatable.kind # "Ok" THEN relocatable
            ELSE memory_get_integer(mem, relocatable.val)
    IN Let(get_relocatable_from_var_name(var_name, rc, mem, ids_data, ap_tracking), read)

\* insert_value_from_var_name storing into the cell without Memory's insert
insert_value_from_var_name_overwriting(var_name, value, rc, mem, segments, ids_data, ap_tracking) ==
    LET write(var_address) ==
            IF var_address.kind # "Ok" THEN [result |-> var_address, memory |-> mem]
            ELSE [result |-> Ok(None), memory |-> (Key(var_address.val) :> value) @@ mem]
    IN Let(get_relocatable_from_var_name(var_name, rc, mem, ids_data, ap_tracking), write)

\* the result and the memory it leaves
insert_value_from_var_name(var_name, value, rc, mem, segments, ids_data, ap_tracking) ==
    LET write(var_address) ==
            IF var_address.kind # "Ok" THEN [result |-> var_address, memory |-> mem]
            ELSE memory_insert_value(mem, segments, var_address.val, value)
    IN Let(get_relocatable_from_var_name(var_name, rc, mem, ids_data, ap_tracking), write)

\* the result and the memory it leaves
insert_value_into_ap(mem, segments, rc, value) ==
    IF ~IsRelocatable(rc.ap) THEN [result |-> Err("MemoryError", rc.ap), memory |-> mem]
    ELSE memory_insert_value(mem, segments, rc.ap, value)

---------------------------------------------------------------------------
(* Execution scopes *)

EmptyScope == [n |-> None]
NotCopying == [len |-> 0, k |-> 0]

Top(stack) == stack[Len(stack)]
Pop(stack) == SubSeq(stack, 1, Len(stack) - 1)
SetTop(stack, x) == [stack EXCEPT ![Len(stack)] = x]

\* ExecutionScopes::exit_scope, the result: the main scope is never popped
scopes_exit_result(scopes) ==
    IF Len(scopes) = 1 THEN Err("MainScopeError", None) ELSE Ok(None)

\* ExecutionScopes::exit_scope, the stack it leaves
scopes_exit(scopes) ==
    IF Len(scopes) = 1 THEN scopes ELSE Pop(scopes)

\* ExecutionScopesProxy::get_int_ref("n"): the current scope's binding
get_int_ref_n(scopes) ==
    IF IsInt(Top(scopes).n) THEN Ok(Top(scopes).n)
    ELSE Err("VariableNotInScope", None)

---------------------------------------------------------------------------
(* Inputs of the hints *)

\* ApTracking::default()
DefaultTracking == ApTracking(0, 0)
HintTrackings == {DefaultTracking, ApTracking(1, 0)}
ApReference == HintReference("AP", 0, 0, TRUE, FALSE, ApTracking(0, 0), NoImmediate)
NoIds == [x \in {} |-> None]
LenIds == {NoIds, "len" :> new_simple(-3), "len" :> new_simple(-2)}
ContinueIds ==
    {"continue_copying" :> new_simple(-2), "continue_copying" :> new_simple(-1),
     "continue_copying" :> ApReference}
VariableIds == {NoIds, "variable" :> new_simple(-3), "variable" :> new_simple(-2)}
InsertValues == {IntVal(0), IntVal(1)}
InitCells == {IntVal(2), RelocatableValue(0, 1)}

Called(op, var_name, ids_data, ap_tracking, value) ==
    [op |-> op, var_name |-> var_name, ids_data |-> ids_data,
     ap_tracking |-> ap_tracking, value |-> value]

---------------------------------------------------------------------------
(* The hints *)

InitHints ==
    /\ build \in Builds
    /\ run_context = [fp |-> RelocatableValue(0, 3), ap |-> RelocatableValue(0, 3)]
    /\ \E v \in InitCells : memory = (<<0, 0>> :> v)
    /\ num_segments = 1
    /\ exec_scopes = <<EmptyScope>>
    /\ copied = <<NotCopying>>
    /\ call = NoCall
    /\ result = Ok(None)

enter_scope ==
    /\ Len(exec_scopes) < MaxDepth
    /\ exec_scopes' = Append(exec_scopes, EmptyScope)
    /\ copied' = Append(copied, NotCopying)
    /\ call' = Called("enter_scope", "", NoIds, NoApTracking, None)
    /\ result' = Ok(None)
    /\ UNCHANGED <<build, run_context, memory, num_segments>>

\* exit_scope with the error of the scope stack dropped
exit_scope_swallowed ==
    /\ exec_scopes' = scopes_exit(exec_scopes)
    /\ copied' = scopes_exit(copied)
    /\ call' = Called("exit_scope", "", NoIds, NoApTracking, None)
    /\ result' = Ok(None)
    /\ UNCHANGED <<build, run_context, memory, num_segments>>

exit_scope ==
    /\ exec_scopes' = scopes_exit(exec_scopes)
    /\ copied' = scopes_exit(copied)
    /\ call' = Called("exit_scope", "", NoIds, NoApTracking, None)
    /\ result' = scopes_exit_result(exec_scopes)
    /\ UNCHANGED <<build, run_context, memory, num_segments>>

memcpy_enter_scope(ids_data, ap_tracking) ==
    \E len \in {get_integer_from_var_name("len", run_context, memory, ids_data, ap_tracking)} :
        /\ Len(exec_scopes) < MaxDepth
        /\ exec_scopes' = IF len.kind = "Ok" THEN Append(exec_scopes, [n |-> len.val])
                          ELSE exec_scopes
        /\ copied' = IF len.kind = "Ok" THEN Append(copied, [len |-> len.val.int, k |-> 0])
                     ELSE copied
        /\ call' = Called("memcpy_enter_scope", "len", ids_data, ap_tracking, None)
        /\ result' = IF len.kind = "Ok" THEN Ok(None) ELSE len
        /\ UNCHANGED <<build, run_context, memory, num_segments>>

\* memcpy_continue_copying testing n where it should test n - 1
memcpy_continue_copying_stale(ids_data, ap_tracking) ==
    LET n == get_int_ref_n(exec_scopes)
        new_n == n.val.int - 1
        flag == IF n.val.int > 0 THEN IntVal(1) ELSE IntVal(0)
    IN
    /\ Top(copied).k < MaxCalls
    /\ call' = Called("memcpy_continue_copying", "continue_copying", ids_data, ap_tracking,
                      IF n.kind = "Ok" THEN flag ELSE None)
    /\ IF n.kind # "Ok"
       THEN /\ result' = n
            /\ UNCHANGED <<memory, exec_scopes, copied>>
       ELSE \E ins \in {insert_value_from_var_name("continue_copying", flag, run_context,
                            memory, num_segments, ids_data, ap_tracking)} :
                /\ result' = ins.result
                /\ memory' = ins.memory
                /\ exec_scopes' = IF ins.result.kind = "Ok"
                                  THEN SetTop(exec_scopes, [n |-> IntVal(new_n)])
                                  ELSE exec_scopes
                /\ copied' = IF ins.result.kind = "Ok"
                             THEN SetTop(copied, [Top(copied) EXCEPT !.k = @ + 1])
                             ELSE copied
    /\ UNCHANGED <<build, run_context, num_segments>>

memcpy_continue_copying(ids_data, ap_tracking) ==
    LET n == get_int_ref_n(exec_scopes)
        new_n == n.val.int - 1
        flag == IF new_n > 0 THEN IntVal(1) ELSE IntVal(0)
    IN
    /\ Top(copied).k < MaxCalls
    /\ call' = Called("memcpy_continue_copying", "continue_copying", ids_data, ap_tracking,
                      IF n.kind = "Ok" THEN flag ELSE None)
    /\ IF n.kind # "Ok"
       THEN /\ result' = n
            /\ UNCHANGED <<memory, exec_scopes, copied>>
       ELSE \E ins \in {insert_value_from_var_name("continue_copying", flag, run_context,
                            memory, num_segments, ids_data, ap_tracking)} :
                /\ result' = ins.result
                /\ memory' = ins.memory
                /\ exec_scopes' = IF ins.result.kind = "Ok"
                                  THEN SetTop(exec_scopes, [n |-> IntVal(new_n)])
                                  ELSE exec_scopes
                /\ copied' = IF ins.result.kind = "Ok"
                             THEN SetTop(copied, [Top(copied) EXCEPT !.k = @ + 1])
                             ELSE copied
    /\ UNCHANGED <<build, run_context, num_segments>>

\* a hint that writes a value to a variable
insert_value_hint(ids_data, ap_tracking, value) ==
    \E ins \in {insert_value_from_var_name("variable", value, run_context, memory,
                    num_segments, ids_data, ap_tracking)} :
        /\ memory' = ins.memory
        /\ result' = ins.result
        /\ call' = Called("insert_value_from_var_name", "variable", ids_data, ap_tracking,
                          value)
        /\ UNCHANGED <<build, run_context, num_segments, exec_scopes, copied>>

\* a hint that writes a value to the cell at ap
insert_into_ap_hint(value) ==
    \E ins \in {insert_value_into_ap(memory, num_segments, run_context, value)} :
        /\ memory' = ins.memory
        /\ result' = ins.result
        /\ call' = Called("insert_value_into_ap", "", NoIds, NoApTracking, value)
        /\ UNCHANGED <<build, run_context, num_segments, exec_scopes, copied>>

\* memory.add_segment, then the new base is written at ap
add_segment ==
    \E ins \in {insert_value_into_ap(memory, num_segments + 1, run_context,
                                     RelocatableValue(num_segments, 0))} :
        /\ num_segments < MaxSegments
        /\ num_segments' = num_segments + 1
        /\ memory' = ins.memory
        /\ result' = ins.result
        /\ call' = Called("add_segment", "", NoIds, NoApTracking,
                          RelocatableValue(num_segments, 0))
        /\ UNCHANGED <<build, run_context, exec_scopes, copied>>

\* a hint that reads an integer variable
get_integer_hint(ids_data, ap_tracking) ==
    /\ result' = get_integer_from_var_name("variable", run_context, memory, ids_data,
                                           ap_tracking)
    /\ call' = Called("get_integer_from_var_name", "variable", ids_data, ap_tracking, None)
    /\ UNCHANGED <<build, run_context, memory, num_segments, exec_scopes, copied>>

NextHints ==
    \/ enter_scope
    \/ exit_scope
    \/ \E ids \in LenIds : memcpy_enter_scope(ids, DefaultTracking)
    \/ \E ids \in ContinueIds, t \in HintTrackings : memcpy_continue_copying(ids, t)
    \/ \E ids \in VariableIds, v \in InsertValues :
           insert_value_hint(ids, DefaultTracking, v)
    \/ \E v \in InsertValues : insert_into_ap_hint(v)
    \/ add_segment
    \/ \E ids \in VariableIds : get_integer_hint(ids, DefaultTracking)

SpecHints == InitHints /\ [][NextHints]_vars

---------------------------------------------------------------------------
(* Properties of compute_addr_from_reference, checked under SpecAddr *)

AddrCalled == call.op = "compute_addr_from_reference"
TheRef == call.ids_data[call.var_name]
TheBase == base_addr(TheRef, run_context, call.ap_tracking)
IsAddress(r) == r.kind = "Ok" /\ IsRelocatable(r.val)

\* case (a): offset1 is negative and its magnitude exceeds the base offset
Underflows(base, hint_reference) ==
    hint_reference.offset1 < 0 /\ -hint_reference.offset1 > base.offset

\* C1: a FramePointer reference without inner dereference resolves to
\* (fp.segment, fp.offset + offset1 + offset2), the sum being checked
\* non-negative (no address when offset1 underflows the base or the sum is
\* negative), and the result is the same for every ap-tracking input.
C1_FpDirectAddress ==
    (AddrCalled /\ TheRef.register = "FP" /\ ~TheRef.inner_dereference
        /\ IsRelocatable(run_context.fp))
    => LET fp == run_context.fp
           sum == fp.offset + TheRef.offset1 + TheRef.offset2
       IN
       /\ IF Underflows(fp, TheRef) THEN result = Ok(None)
          ELSE IF sum >= 0 THEN result = Ok(RelocatableValue(fp.segment_index, sum))
          ELSE ~IsAddress(result)
       /\ \A t1 \in Trackings, t2 \in Trackings :
              compute_addr_from_reference([TheRef EXCEPT !.ap_tracking_data = t1],
                                          run_context, memory, t2) = result

\* C2: an AllocationPointer reference whose tracking group differs from the
\* call site's fails with InvalidTrackingGroup, whatever the offsets, the
\* dereference flags and the memory are (ap being an address).
C2_GroupMismatchIsError ==
    (AddrCalled /\ TheRef.register = "AP" /\ IsRelocatable(run_context.ap)
        /\ TheRef.ap_tracking_data.some /\ call.ap_tracking.some
        /\ TheRef.ap_tracking_data.group # call.ap_tracking.group)
    => result = Err("InvalidTrackingGroup", None)

C2_Witness ==
    /\ AddrCalled /\ TheRef.register = "AP" /\ IsRelocatable(run_context.ap)
    /\ TheRef.ap_tracking_data = ApTracking(0, 2) /\ call.ap_tracking = ApTracking(1, 0)
    /\ TheRef.inner_dereference /\ TheRef.offset1 = -2
    /\ memory # EmptyMemory
    /\ result.kind = "Err" /\ result.err = "InvalidTrackingGroup"

\* C3: when offset1 is negative and its magnitude exceeds the base offset,
\* the result is None for every register and every combination of the
\* dereference flags: no panic, no wrapped-around address.
C3_UnderflowIsNone ==
    (AddrCalled /\ IsAddress(TheBase) /\ Underflows(TheBase.val, TheRef))
    => result = Ok(None)

\* C4: compute_addr_from_reference never panics, and returns None exactly
\* when (a) offset1 underflows the base offset or (b) on the inner-dereference
\* path the intermediate cell is unset or holds no address; otherwise it
\* returns an address or a typed error.
C4_NoneExactlyTwoCases ==
    AddrCalled
    => /\ result.kind # "Panic"
       /\ IsAddress(TheBase)
          => LET base == TheBase.val
                 intermediate == RelocatableValue(base.segment_index,
                                                  base.offset + TheRef.offset1)
             IN (result = Ok(None))
                <=> \/ Underflows(base, TheRef)
                    \/ /\ TheRef.inner_dereference
                       /\ ~IsRelocatable(memory_get(memory, intermediate))
       /\ TheBase.kind = "Err" => result.kind = "Err"

\* C5: with inner_dereference, the cell (base.segment, base.offset + offset1)
\* is read: unset or an Integer gives None; an Address deref gives
\* deref + immediate when immediate is set, else
\* (deref.segment, deref.offset + offset2).
C5_InnerDereference ==
    (AddrCalled /\ TheRef.inner_dereference /\ IsAddress(TheBase)
        /\ ~Underflows(TheBase.val, TheRef))
    => LET base == TheBase.val
           deref == memory_get(memory, RelocatableValue(base.segment_index,
                                                        base.offset + TheRef.offset1))
       IN
       IF ~IsRelocatable(deref) THEN result = Ok(None)
       ELSE IF TheRef.immediate.some
       THEN result = Ok(RelocatableValue(deref.segment_index,
                                         deref.offset + TheRef.immediate.v))
       ELSE result = Ok(RelocatableValue(deref.segment_index,
                                         deref.offset + TheRef.offset2))

\* C10: for an AllocationPointer reference with both trackings present and of
\* equal group the base is
\* (ap.segment, ap.offset - (call_site.offset - reference.offset)), for all
\* offsets; with a tracking absent the resolution fails with
\* NoneApTrackingData.
C10_ApTrackingCorrection ==
    (AddrCalled /\ TheRef.register = "AP")
    => IF ~TheRef.ap_tracking_data.some \/ ~call.ap_tracking.some
       THEN result = Err("NoneApTrackingData", None)
       ELSE (IsRelocatable(run_context.ap)
                /\ TheRef.ap_tracking_data.group = call.ap_tracking.group)
            => TheBase = Ok(RelocatableValue(run_context.ap.segment_index,
                   run_context.ap.offset
                   - (call.ap_tracking.offset - TheRef.ap_tracking_data.offset)))

---------------------------------------------------------------------------
(* Properties of the hints, checked under SpecHints *)

\* the address the last call resolved for its variable
Resolved(c) ==
    get_relocatable_from_var_name(c.var_name, run_context, memory, c.ids_data,
                                  c.ap_tracking)

\* C6: exit_scope on a stack of one scope fails with the main-scope error and
\* leaves the stack unchanged, so the stack always holds at least one scope,
\* whatever hints ran, successfully or not.
C6_MainScopeNeverPopped ==
    /\ [](Len(exec_scopes) >= 1)
    /\ [][(call'.op = "exit_scope" /\ Len(exec_scopes) = 1)
          => (result' = Err("MainScopeError", None) /\ exec_scopes' = exec_scopes)]_vars

C6_Witness ==
    /\ call.op = "exit_scope"
    /\ result = Err("MainScopeError", None)
    /\ Len(exec_scopes) = 1
    /\ DOMAIN memory # {<<0, 0>>}

\* C7: after memcpy_enter_scope bound n = len, the k-th memcpy_continue_copying
\* that completes writes 1 into the resolved cell of continue_copying if
\* len - k > 0 and 0 otherwise, and leaves n = len - k in the current scope;
\* a call that fails leaves n as it was.
C7_ContinueCopying ==
    /\ \A i \in 1..Len(exec_scopes) :
           IsInt(exec_scopes[i].n)
           => exec_scopes[i].n = IntVal(copied[i].len - copied[i].k)
    /\ (call.op = "memcpy_enter_scope" /\ result.kind = "Ok")
       => /\ Top(copied).k = 0
          /\ Top(exec_scopes).n = memory_get(memory, Resolved(call).val)
    /\ (call.op = "memcpy_continue_copying" /\ result.kind = "Ok")
       => /\ Top(copied).k >= 1
          /\ Top(exec_scopes).n = IntVal(Top(copied).len - Top(copied).k)
          /\ memory_get(memory, Resolved(call).val)
                 = IntVal(IF Top(copied).len - Top(copied).k > 0 THEN 1 ELSE 0)

\* len = 2: the second call wrote 0 and left n = 0
C7_Witness ==
    /\ call.op = "memcpy_continue_copying"
    /\ result.kind = "Ok"
    /\ Top(copied) = [len |-> 2, k |-> 2]
    /\ Top(exec_scopes).n = IntVal(0)
    /\ memory_get(memory, Resolved(call).val) = IntVal(0)
    /\ \E a \in DOMAIN memory : memory[a] = IntVal(1)

\* the cell a call inserts into, when it gets as far as inserting
InsertTarget(c) ==
    IF c.op \in {"insert_value_into_ap", "add_segment"}
    THEN Ok(run_context.ap)
    ELSE IF c.op = "insert_value_from_var_name"
            \/ (c.op = "memcpy_continue_copying" /\ IsInt(c.value))
    THEN Resolved(c)
    ELSE Err("no insert", None)

\* C8: an insert at a resolved address that already holds a value fails when
\* the value differs, and the cell keeps the first value; it succeeds when
\* the value is the same.
C8_WriteOnce ==
    [][(InsertTarget(call').kind = "Ok" /\ Key(InsertTarget(call').val) \in DOMAIN memory)
       => IF memory[Key(InsertTarget(call').val)] # call'.value
          THEN result'.kind = "Err" /\ memory' = memory
          ELSE result' = Ok(None) /\ memory' = memory]_vars

\* a second hint wrote a different value into the cell (0, 1) a first one had set
C8_Witness ==
    /\ call.op = "insert_value_from_var_name"
    /\ call.ids_data = ("variable" :> new_simple(-2))
    /\ result = Err("InconsistentMemory", RelocatableValue(0, 1))
    /\ IsInt(memory_get(memory, RelocatableValue(0, 1)))
    /\ memory_get(memory, RelocatableValue(0, 1)) # call.value

\* C9: get_integer_from_var_name returns the Integer in the cell at the
\* resolved address, fails with ExpectedInteger carrying that address when the
\* cell holds an Address, and never returns an Address.
C9_GetInteger ==
    call.op = "get_integer_from_var_name"
    => /\ result.kind = "Ok" => IsInt(result.val)
       /\ Resolved(call).kind = "Ok"
          => LET cell == memory_get(memory, Resolved(call).val) IN
             /\ IsInt(cell) => result = Ok(cell)
             /\ IsRelocatable(cell) => result = Err("ExpectedInteger", Resolved(call).val)

\* the cell (0, 0) holds an Address, as in the test of the error
C9_Witness ==
    /\ call.op = "get_integer_from_var_name"
    /\ memory_get(memory, RelocatableValue(0, 0)) = RelocatableValue(0, 1)
    /\ result = Err("ExpectedInteger", RelocatableValue(0, 0))

====
